---- MODULE Spec2Model ----
(***************************************************************************)
(* Caption compositing and export engine of ResultsView.tsx: the           *)
(* frame-accurate export (handleFastExport), the realtime fallback         *)
(* (handleRealtimeExport), the source <video> element they drive, and the  *)
(* caption / style / layout-cache state of the component.                  *)
(*                                                                         *)
(* Time is counted in frame intervals (1/30 s): the source has NumFrames   *)
(* intervals, frame k has timestamp k, position NumFrames is the end.      *)
(* Every action is one browser task: a handler runs from its entry (or     *)
(* from the await it resumes at) to its next await.                        *)
(***************************************************************************)
EXTENDS Integers, Sequences, FiniteSets, TLC

\* ---------------------------------------------------------------- bounds
MaxExports == 2        \* Export clicks in one behaviour
NumFrames == 2         \* source duration in frame intervals
NumChunks == 2         \* 1-second audio chunks of the source
MaxUserOps == 1        \* operator actions other than Export clicks
MaxTextLen == 5        \* characters of a caption text that is laid out
MaxWidthUnits == 2     \* canvas widths tried by the layout, in units of 5 px
MaxWordsTried == 3     \* largest Max Words slider value tried (besides 100)
MaxBlocks == 2         \* blocks of a subtitle text that is parsed
MaxElapsedMs == 700    \* largest time since a caption's start, in ms
MaxDuration == 5       \* longest source of the frame loop, in seconds

Jobs == 1..MaxExports
Times == 0..NumFrames
Volumes == {0, 1}
NoEntry == <<>>

VARIABLES
  video,            \* the source HTMLVideoElement (videoRef.current)
  jobs,             \* one record per export request
  nJobs,            \* export requests made so far
  isExporting,      \* React state isExporting
  exportProgress,   \* React state exportProgress
  captions,         \* React state captions (CaptionSegment[])
  numericCaptions,  \* the memo numericCaptions, recomputed with captions
  style,            \* React state selectedFont / fontSize / visualMaxWords /
                    \* selectedAnimation
  textLayoutCache,  \* textLayoutCache.current
  hasVideoEncoder,  \* 'VideoEncoder' in window
  nOps,             \* operator actions taken so far
  srt,              \* the prop result.srt
  download,         \* content of the last file written by handleDownloadSRT
  overlay,          \* canvas state the caption of the last frame was drawn in
  render,           \* the frame loop of handleFastExport: time, frames submitted
  retryCall,        \* one call of retry(fn, retries, delay, signal)
  app               \* App.tsx: app state, controller ref, caption requests

vars == <<video, jobs, nJobs, isExporting, exportProgress, captions,
          numericCaptions, style, textLayoutCache, hasVideoEncoder, nOps, srt,
          download, overlay,
          render,
          retryCall,
          app>>

\* what the export handlers and the source's playback never write
fixed == <<hasVideoEncoder, srt, download, overlay,
          render,
          retryCall,
          app>>

\* --------------------------------------------------------------- strings
\* A string is the sequence of its characters.  A few substrings that no
\* operation of the program ever divides are one element: the arrow "-->",
\* the line break "\r\n", and the digit groups of a timestamp.
Min(a, b) == IF a < b THEN a ELSE b
Max(a, b) == IF a > b THEN a ELSE b
MinOf(S) == CHOOSE x \in S : \A y \in S : x <= y

SeqsUpTo(S, n) == UNION {[1..k -> S] : k \in 0..n}

RECURSIVE Flatten(_)
Flatten(ss) == IF ss = <<>> THEN <<>> ELSE Head(ss) \o Flatten(Tail(ss))

\* s.startsWith(sep, i)
StartsWithAt(s, sep, i) ==
  /\ i + Len(sep) - 1 <= Len(s)
  /\ \A k \in 1..Len(sep) : s[i + k - 1] = sep[k]

\* s.split(sep) for a non-empty separator: always at least one part, empty
\* parts between adjacent separators and at the ends are kept
RECURSIVE SplitFrom(_, _, _, _)
SplitFrom(s, sep, i, cur) ==
  IF i > Len(s) THEN <<cur>>
  ELSE IF StartsWithAt(s, sep, i)
       THEN <<cur>> \o SplitFrom(s, sep, i + Len(sep), <<>>)
       ELSE SplitFrom(s, sep, i + 1, Append(cur, s[i]))

split(s, sep) == SplitFrom(s, sep, 1, <<>>)

\* parts.join(sep)
RECURSIVE join(_, _)
join(parts, sep) ==
  IF parts = <<>> THEN <<>>
  ELSE IF Len(parts) = 1 THEN parts[1]
  ELSE parts[1] \o sep \o join(Tail(parts), sep)

\* a slice that starts one element late
sliceFromNext(parts, from, to) == SubSeq(parts, from + 2, to)

\* parts.slice(from, to): 0-based, to exclusive
slice(parts, from, to) == SubSeq(parts, from + 1, to)

Space == <<" ">>
WhiteSpace == {" ", "\n"}

\* s.trim()
RECURSIVE trimStart(_)
trimStart(s) ==
  IF s # <<>> /\ Head(s) \in WhiteSpace THEN trimStart(Tail(s)) ELSE s

RECURSIVE trimEnd(_)
trimEnd(s) ==
  IF s # <<>> /\ s[Len(s)] \in WhiteSpace
  THEN trimEnd(SubSeq(s, 1, Len(s) - 1)) ELSE s

trim(s) == trimEnd(trimStart(s))

\* s.replace(a, b): the first occurrence only
RECURSIVE replaceFirst(_, _, _)
replaceFirst(s, a, b) ==
  IF s = <<>> THEN <<>>
  ELSE IF Head(s) = a THEN <<b>> \o Tail(s)
  ELSE <<Head(s)>> \o replaceFirst(Tail(s), a, b)

\* s.replace(/a/g, b)
replaceAll(s, a, b) == [i \in DOMAIN s |-> IF s[i] = a THEN b ELSE s[i]]

\* ------------------------------------------------------- the video element
\* video.currentTime = x: the position changes at once, 'seeked' comes later
SetCurrentTime(v, x) == [v EXCEPT !.currentTime = x, !.seeking = TRUE]

\* video.ended
Ended(v) == v.currentTime = NumFrames

\* ------------------------------------------------------- caption timing
\* value of a digit group
GroupValue ==
  [g \in {"00", "000", "020", "033", "100"} |->
     CASE g = "020" -> 20 [] g = "033" -> 33 [] g = "100" -> 100 [] OTHER -> 0]

\* NaN, which no timestamp's value equals
NaN == -1

\* parseFloat of one ':'-separated part of a timestamp, in milliseconds
parseFloat(p) ==
  IF p = <<>> \/ p[1] \notin DOMAIN GroupValue THEN NaN
  ELSE IF Len(p) >= 3 /\ p[2] = "." /\ p[3] \in DOMAIN GroupValue
       THEN 1000 * GroupValue[p[1]] + GroupValue[p[3]]
       ELSE 1000 * GroupValue[p[1]]

\* parseTime: "HH:MM:SS,mmm" or "HH:MM:SS.mmm" to milliseconds
parseTime(timeString) ==
  IF timeString = <<>> THEN 0
  ELSE LET parts == split(replaceFirst(timeString, ",", "."), <<":">>)
       IN IF Len(parts) < 3 THEN 0
          ELSE LET h == parseFloat(parts[1])
                   m == parseFloat(parts[2])
                   s == parseFloat(parts[3])
               IN IF NaN \in {h, m, s} THEN NaN
                  ELSE 3600 * h + 60 * m + s

\* the body of the numericCaptions memo
ToNumeric(caps) ==
  [i \in DOMAIN caps |->
     [id |-> caps[i].id, text |-> caps[i].text,
      start |-> parseTime(caps[i].startTime),
      end |-> parseTime(caps[i].endTime)]]

\* frames per second of the export
Fps == 30

\* numericCaptions.find(c => time >= c.start && time <= c.end), with time
\* the frame position t (t / Fps seconds)
ActiveCaps(t) ==
  {i \in DOMAIN numericCaptions :
     /\ numericCaptions[i].start # NaN /\ numericCaptions[i].end # NaN
     /\ 1000 * t >= Fps * numericCaptions[i].start
     /\ 1000 * t <= Fps * numericCaptions[i].end}

\* ------------------------------------------------------------ text layout
Fonts == {"Inter", "Poppins"}
FontSizes == {5, 10}

\* ctx.measureText(s).width under ctx.font = `500 ${size}px "${font}"`: the
\* advance widths of the characters add up and grow with the font size
GlyphWidth(c, font) ==
  CASE c = " " -> 1
    [] c = "a" -> IF font = "Inter" THEN 2 ELSE 3
    [] OTHER -> 3

RECURSIVE SumWidths(_, _)
SumWidths(s, font) ==
  IF s = <<>> THEN 0 ELSE GlyphWidth(Head(s), font) + SumWidths(Tail(s), font)

measureText(s, st) == SumWidths(s, st.selectedFont) * (st.fontSize \div 5)

\* const maxWidth = width * 0.8, width = canvas.width = video.videoWidth
MaxWidthOf(v) == (v.videoWidth * 8) \div 10

\* getRangeWidth(start, end): width of the words [start, end), 0-based
RECURSIVE SumRange(_, _, _)
SumRange(wordWidths, start, end) ==
  IF start >= end THEN 0
  ELSE wordWidths[start + 1] + SumRange(wordWidths, start + 1, end)

getRangeWidth(wordWidths, spaceWidth, start, end) ==
  IF start >= end THEN 0
  ELSE SumRange(wordWidths, start, end)
         + Max(0, end - start - 1) * spaceWidth

\* `diff <= minDiff` in place of `diff < minDiff`
ImprovesOrTies(diff, bestSplit, minDiff) == bestSplit = -1 \/ diff <= minDiff

\* if (diff < minDiff), minDiff being Infinity until a split is taken
Improves(diff, bestSplit, minDiff) == bestSplit = -1 \/ diff < minDiff

\* the loop over the split points i .. words.length - 1, carrying bestSplit
\* and minDiff; minDiff is Infinity exactly while bestSplit is -1
RECURSIVE BalancedLoop(_, _, _, _, _, _, _)
BalancedLoop(wordWidths, spaceWidth, maxWidth, maxWords, i, bestSplit, minDiff) ==
  LET n == Len(wordWidths) IN
  IF i >= n THEN bestSplit
  ELSE IF i > maxWords \/ (n - i) > maxWords
       THEN BalancedLoop(wordWidths, spaceWidth, maxWidth, maxWords,
                         i + 1, bestSplit, minDiff)
  ELSE LET w1 == getRangeWidth(wordWidths, spaceWidth, 0, i)
           w2 == getRangeWidth(wordWidths, spaceWidth, i, n)
           diff == IF w1 >= w2 THEN w1 - w2 ELSE w2 - w1
       IN IF w1 <= maxWidth /\ w2 <= maxWidth
             /\ Improves(diff, bestSplit, minDiff)
          THEN BalancedLoop(wordWidths, spaceWidth, maxWidth, maxWords,
                            i + 1, i, diff)
          ELSE BalancedLoop(wordWidths, spaceWidth, maxWidth, maxWords,
                            i + 1, bestSplit, minDiff)

\* the width test made before the word is added
WidthOverflowLate(currentLine, currentWidth, spaceWidth, w, maxWidth) ==
  Len(currentLine) > 0 /\ currentWidth > maxWidth

\* const widthOverflow = ...
WidthOverflow(currentLine, currentWidth, spaceWidth, w, maxWidth) ==
  Len(currentLine) > 0 /\ currentWidth + spaceWidth + w > maxWidth

\* the word limit tested one word late
WordCountOverflowLate(currentLine, maxWords) == Len(currentLine) > maxWords

\* const wordCountOverflow = currentLine.length >= visualMaxWords
WordCountOverflow(currentLine, maxWords) == Len(currentLine) >= maxWords

\* the greedy loop over the words i .. words.length - 1, carrying lines,
\* currentLine and currentWidth
RECURSIVE GreedyLoop(_, _, _, _, _, _, _, _, _)
GreedyLoop(words, wordWidths, spaceWidth, maxWidth, maxWords, i, lines, currentLine, currentWidth) ==
  IF i >= Len(words)
  THEN IF Len(currentLine) > 0
       THEN Append(lines, join(currentLine, Space)) ELSE lines
  ELSE LET word == words[i + 1]
           w == wordWidths[i + 1]
           widthOverflow == WidthOverflow(currentLine, currentWidth,
                                          spaceWidth, w, maxWidth)
           wordCountOverflow == WordCountOverflow(currentLine, maxWords)
       IN IF widthOverflow \/ wordCountOverflow
          THEN IF Len(currentLine) > 0
               THEN GreedyLoop(words, wordWidths, spaceWidth, maxWidth,
                               maxWords, i + 1,
                               Append(lines, join(currentLine, Space)),
                               <<word>>, w)
               ELSE GreedyLoop(words, wordWidths, spaceWidth, maxWidth,
                               maxWords, i + 1, lines,
                               Append(currentLine, word), w)
          ELSE IF Len(currentLine) = 0
               THEN GreedyLoop(words, wordWidths, spaceWidth, maxWidth,
                               maxWords, i + 1, lines,
                               Append(currentLine, word), w)
               ELSE GreedyLoop(words, wordWidths, spaceWidth, maxWidth,
                               maxWords, i + 1, lines,
                               Append(currentLine, word),
                               currentWidth + spaceWidth + w)

\* the single-line test without the word limit
FitsOneLineByWidth(totalWidth, n, maxWidth, maxWords) == totalWidth <= maxWidth

\* if (totalWidth <= maxWidth && words.length <= visualMaxWords)
FitsOneLine(totalWidth, n, maxWidth, maxWords) ==
  totalWidth <= maxWidth /\ n <= maxWords

\* the element of a one-element set: `The({F(x) : x \in {e}})` is F(e) with
\* e evaluated once
The(S) == CHOOSE x \in S : TRUE

\* getWrappedLines from `const totalWidth` on
WrapWords(text, words, wordWidths, spaceWidth, maxWidth, maxWords) ==
  LET totalWidth == getRangeWidth(wordWidths, spaceWidth, 0, Len(words))
      bestSplit == BalancedLoop(wordWidths, spaceWidth, maxWidth, maxWords,
                                1, -1, 0)
  IN IF FitsOneLine(totalWidth, Len(words), maxWidth, maxWords) THEN <<text>>
     ELSE The({IF at # -1
                 THEN <<join(slice(words, 0, at), Space),
                        join(slice(words, at, Len(words)), Space)>>
                 ELSE GreedyLoop(words, wordWidths, spaceWidth, maxWidth,
                                 maxWords, 0, <<>>, <<>>, 0)
               : at \in {bestSplit}})

\* getWrappedLines past its cache lookup: the lines of a text laid out cold
LayoutLines(text, maxWidth, st) ==
  The({The({WrapWords(text, words, wordWidths, measureText(Space, st),
                      maxWidth, st.visualMaxWords)
            : wordWidths \in {[i \in DOMAIN words |->
                                 measureText(words[i], st)]}})
       : words \in {split(text, Space)}})

CaptionIds == {1, 2}
EmptyCache == [id \in CaptionIds |-> NoEntry]

\* getWrappedLines(ctx, text, maxWidth, captionId): the cache it leaves; the
\* lines it returns are the entry of captionId
getWrappedLines(cache, text, maxWidth, captionId, st) ==
  IF cache[captionId] # NoEntry THEN cache
  ELSE [cache EXCEPT ![captionId] = LayoutLines(text, maxWidth, st)]

\* drawFrameToCanvas: the effect on the layout cache (getWrappedLines)
drawFrameToCanvas(w, t) ==
  IF ActiveCaps(t) = {} THEN w
  ELSE LET activeCap == numericCaptions[MinOf(ActiveCaps(t))]
       IN [w EXCEPT !.textLayoutCache =
             getWrappedLines(@, activeCap.text, MaxWidthOf(w.video),
                             activeCap.id, style)]

\* ------------------------------------------------------- subtitle text
NL == <<"\n">>
BlankLine == <<"\n", "\n">>
Arrow == <<" ", "-->", " ">>

\* the digits a character or digit group stands for: <<value, 10^digits>>
Digits ==
  [c \in {"0", "1", "2", "3", "00", "000", "020", "033", "100"} |->
     CASE c = "0" -> <<0, 10>> [] c = "1" -> <<1, 10>> [] c = "2" -> <<2, 10>>
       [] c = "3" -> <<3, 10>> [] c = "00" -> <<0, 100>>
       [] c = "000" -> <<0, 1000>> [] c = "020" -> <<20, 1000>>
       [] c = "033" -> <<33, 1000>> [] OTHER -> <<100, 1000>>]

RECURSIVE DigitPrefix(_, _)
DigitPrefix(s, acc) ==
  IF s = <<>> \/ Head(s) \notin DOMAIN Digits THEN acc
  ELSE DigitPrefix(Tail(s), acc * Digits[Head(s)][2] + Digits[Head(s)][1])

\* parseInt(s): leading white space is skipped, the longest prefix of digits
\* is the value, NaN when there is none
parseInt(s) ==
  LET t == trimStart(s)
  IN IF t = <<>> \/ Head(t) \notin DOMAIN Digits THEN NaN
     ELSE DigitPrefix(t, 0)

\* `${n}` for a number n >= 0
RECURSIVE toString(_)
toString(n) ==
  LET d == <<"0", "1", "2", "3", "4", "5", "6", "7", "8", "9">>[(n % 10) + 1]
  IN IF n < 10 THEN <<d>> ELSE Append(toString(n \div 10), d)

\* the body of blocks.forEach: the segments one block adds
ParseBlock(block) ==
  LET lines == split(block, NL)
  IN IF Len(lines) < 3 THEN <<>>
     ELSE LET id == parseInt(lines[1])
              timeLine == lines[2]
              text == join(slice(lines, 2, Len(lines)), Space)
              parts == split(timeLine, Arrow)
          IN IF id # NaN /\ parts[1] # <<>>
                /\ Len(parts) >= 2 /\ parts[2] # <<>>
             THEN <<[id |-> id, startTime |-> trim(parts[1]),
                     endTime |-> trim(parts[2]), text |-> trim(text)]>>
             ELSE <<>>

parseSRT(s) ==
  LET normalized == replaceAll(s, "\r\n", "\n")
      blocks == split(normalized, BlankLine)
  IN Flatten([i \in DOMAIN blocks |-> ParseBlock(blocks[i])])

\* generateSRT with the blocks joined by a line break only
generateSRTNoBlankLine(segments) ==
  join([i \in DOMAIN segments |->
          toString(segments[i].id) \o NL \o segments[i].startTime \o Arrow
            \o segments[i].endTime \o NL \o segments[i].text],
       NL)

generateSRT(segments) ==
  join([i \in DOMAIN segments |->
          toString(segments[i].id) \o NL \o segments[i].startTime \o Arrow
            \o segments[i].endTime \o NL \o segments[i].text],
       BlankLine)

\* a timestamp 00:00:00<sep><ms>
Stamp(sep, ms) == <<"00", ":", "00", ":", "00", sep, ms>>

\* the subtitle text of the export model: "a b" on frame 0, "b" from frame 1
SampleSrt ==
  <<"1">> \o NL \o Stamp(",", "000") \o Arrow \o Stamp(",", "020") \o NL
    \o <<"a", " ", "b">> \o BlankLine
    \o <<"2">> \o NL \o Stamp(",", "033") \o Arrow \o Stamp(",", "100") \o NL
    \o <<"b">>

\* the same subtitles with the second segment numbered 1 as well
SameIdSrt ==
  <<"1">> \o NL \o Stamp(",", "000") \o Arrow \o Stamp(",", "020") \o NL
    \o <<"a", " ", "b">> \o BlankLine
    \o <<"1">> \o NL \o Stamp(",", "033") \o Arrow \o Stamp(",", "100") \o NL
    \o <<"b">>
SampleSrts == {SampleSrt, SameIdSrt}

\* the texts an edit types
Texts == {<<"a", " ", "b">>, <<"b">>, <<"b", " ", "a", " ", "b">>}

\* ------------------------------------------------------------ job records
NoJob ==
  [pc |-> "none", seen |-> FALSE, k |-> 0, frames |-> <<>>,
   audioChunks |-> 0, audioFlushed |-> FALSE,
   muxer |-> "none", videoEncoder |-> "none", audioEncoder |-> "none",
   audioCtx |-> "none", mediaRecorder |-> "none",
   fOrig |-> 0, rOrig |-> [time |-> 0, volume |-> 0, muted |-> FALSE],
   start |-> [time |-> 0, volume |-> 0, muted |-> FALSE],
   fastFiles |-> 0, rtFiles |-> 0, chunks |-> 0, notices |-> {},
   rtStarts |-> 0, fastError |-> FALSE]

\* pc values at which the request has come to rest
EndedPcs == {"done", "failed", "noctx"}
StuckPcs == {"hung", "dead"}
FastPcs == {"decode", "aflush", "seek", "vflush"}
RtPcs == {"play", "loop", "stopping"}

\* a request whose handler has returned (or can never resume) holds nothing
\* the program can reach any more: its record is kept in the state the
\* request ends in and dropped by the next step of the system
Gone == [NoJob EXCEPT !.pc = "gone"]
Forget(js) == [i \in Jobs |-> IF js[i].pc \in EndedPcs \cup StuckPcs
                               THEN Gone ELSE js[i]]

\* the state the handlers read and write, as one record
World ==
  [video |-> video, jobs |-> Forget(jobs), isExporting |-> isExporting,
   exportProgress |-> exportProgress, textLayoutCache |-> textLayoutCache]

Commit(w) ==
  \E x \in {w} :
    /\ video' = x.video
    /\ jobs' = x.jobs
    /\ isExporting' = x.isExporting
    /\ exportProgress' = x.exportProgress
    /\ textLayoutCache' = x.textLayoutCache

\* ------------------------------------------------- handleRealtimeExport
RtOutcomes == {"ok", "noctx", "ctorThrow"}

\* RealtimeCatch without its setIsExporting(false)
RealtimeCatchKeepsFlag(w, j) ==
  [w EXCEPT !.jobs[j].notices = @ \cup {"failed"},
            !.jobs[j].pc = "failed",
            !.video = SetCurrentTime(@, w.jobs[j].rOrig.time)]

\* the catch block of handleRealtimeExport
RealtimeCatch(w, j) ==
  [w EXCEPT !.jobs[j].notices = @ \cup {"failed"},
            !.jobs[j].pc = "failed",
            !.video = SetCurrentTime(@, w.jobs[j].rOrig.time),
            !.isExporting = FALSE]

\* handleRealtimeExport from its entry to `await video.play()`
handleRealtimeExport(w, j, o) ==
  LET v0 == w.video
      orig == [time |-> v0.currentTime, volume |-> v0.volume,
               muted |-> v0.muted]
      base == [w EXCEPT !.isExporting = TRUE,
                        !.exportProgress = 0,
                        !.textLayoutCache = EmptyCache,
                        !.video = [SetCurrentTime(v0, 0) EXCEPT !.muted = FALSE],
                        !.jobs[j].rOrig = orig,
                        !.jobs[j].rtStarts = @ + 1]
  IN CASE o = "noctx" ->
            [base EXCEPT !.isExporting = FALSE, !.jobs[j].pc = "noctx"]
       [] o = "ctorThrow" -> RealtimeCatch(base, j)
       [] OTHER ->
            [base EXCEPT !.jobs[j].mediaRecorder = "recording",
                         !.jobs[j].pc = "play",
                         !.video.paused = FALSE]

\* ----------------------------------------------------- handleFastExport
\* catch { alert; video.currentTime = originalTime; handleRealtimeExport() }
\* finally { setIsExporting(false); video.currentTime = originalTime }
\* The locals of the try block (loop counter, submitted frames, audio
\* progress) go out of scope; the handles it opened stay as they are.
FastCatchFinally(w, j, o) ==
  LET c == [w EXCEPT !.jobs[j].notices = @ \cup {"fastfail"},
                     !.jobs[j].fastError = TRUE,
                     !.jobs[j].k = 0, !.jobs[j].frames = <<>>,
                     !.jobs[j].audioChunks = 0,
                     !.jobs[j].audioFlushed = FALSE,
                     !.video = SetCurrentTime(@, w.jobs[j].fOrig)]
      r == handleRealtimeExport(c, j, o)
  IN [r EXCEPT !.isExporting = FALSE,
               !.video = SetCurrentTime(@, w.jobs[j].fOrig)]

FastSetupOutcomes == {"ok", "configureThrow", "noAudioEncoder"}

\* click on Export Video: handleFastExport up to `await fetch(videoUrl)`
handleFastExport(j) ==
  /\ ~isExporting
  /\ nJobs < MaxExports
  /\ j = nJobs + 1
  /\ nJobs' = j
  /\ LET st == [time |-> video.currentTime, volume |-> video.volume,
                muted |-> video.muted]
         w0 == [World EXCEPT !.jobs[j].start = st,
                             !.jobs[j].seen = isExporting]
     IN IF ~hasVideoEncoder
        THEN \E o \in RtOutcomes :
               Commit(handleRealtimeExport(
                 [w0 EXCEPT !.jobs[j].notices = @ \cup {"unsupported"}], j, o))
        ELSE \E s \in FastSetupOutcomes, o \in RtOutcomes :
               LET w1 == [w0 EXCEPT !.isExporting = TRUE,
                                    !.exportProgress = 0,
                                    !.jobs[j].fOrig = video.currentTime,
                                    !.jobs[j].muxer = "open"]
               IN CASE s = "configureThrow" ->
                         Commit(FastCatchFinally(
                           [w1 EXCEPT !.jobs[j].videoEncoder = "unconfigured"],
                           j, o))
                    [] s = "noAudioEncoder" ->
                         Commit(FastCatchFinally(
                           [w1 EXCEPT !.jobs[j].videoEncoder = "configured"],
                           j, o))
                    [] OTHER ->
                         /\ o = "ok"
                         /\ Commit([w1 EXCEPT
                              !.jobs[j].videoEncoder = "configured",
                              !.jobs[j].audioEncoder = "configured",
                              !.jobs[j].pc = "decode"])
  /\ UNCHANGED <<captions, numericCaptions, style, fixed, nOps>>

\* DecodeDone that does not await audioEncoder.flush(): the frame loop
\* starts right after the audio chunk loop
DecodeDoneNoAwait(j) ==
  /\ jobs[j].pc = "decode"
  /\ Commit([World EXCEPT !.jobs[j].audioChunks = NumChunks,
                          !.jobs[j].audioCtx = "running",
                          !.textLayoutCache = EmptyCache,
                          !.video = SetCurrentTime([@ EXCEPT !.paused = TRUE],
                                                   0),
                          !.jobs[j].k = 0,
                          !.jobs[j].pc = "seek"])
  /\ UNCHANGED <<nJobs, captions, numericCaptions, style, fixed, nOps>>

\* `await fetch`, `await response.arrayBuffer()` and `await
\* audioCtx.decodeAudioData` settle; the audio chunk loop runs up to
\* `await audioEncoder.flush()`
DecodeDone(j) ==
  /\ jobs[j].pc = "decode"
  /\ \/ Commit([World EXCEPT !.jobs[j].audioChunks = NumChunks,
                             !.jobs[j].audioCtx = "running",
                             !.jobs[j].pc = "aflush"])
     \/ \E o \in RtOutcomes :
          Commit(FastCatchFinally(
            [World EXCEPT !.jobs[j].audioCtx = "running"], j, o))
  /\ UNCHANGED <<nJobs, captions, numericCaptions, style, fixed, nOps>>

\* Math.min(99, Math.floor((currentTime / duration) * 100))
FastProgress(next) == Min(99, (100 * next) \div NumFrames)

\* t === 0 || Math.round(t * fps) % (2 * fps) === 0
KeyFrameEvery == 60
IsKeyFrame(k) == k = 0 \/ k % KeyFrameEvery = 0

\* processFrame(t): add the once-listener for 'seeked', then seek to t
processFrame(w, j, t) ==
  [w EXCEPT !.jobs[j].pc = "seek", !.jobs[j].k = t,
            !.video = SetCurrentTime(@, t)]

\* `await audioEncoder.flush()` settles; the frame loop starts
AudioFlushed(j) ==
  /\ jobs[j].pc = "aflush"
  /\ \/ LET w1 == [World EXCEPT !.jobs[j].audioFlushed = TRUE,
                                !.textLayoutCache = EmptyCache,
                                !.video.paused = TRUE]
        IN Commit(processFrame(w1, j, 0))
     \/ \E o \in RtOutcomes : Commit(FastCatchFinally(World, j, o))
     \/ \E o \in RtOutcomes :       \* getContext('2d') returned null
          Commit(FastCatchFinally(
            [World EXCEPT !.jobs[j].audioFlushed = TRUE,
                          !.textLayoutCache = EmptyCache], j, o))
  /\ UNCHANGED <<nJobs, captions, numericCaptions, style, fixed, nOps>>

\* onSeeked of processFrame(t) for request j, then the loop body after the
\* await: currentTime += interval; setExportProgress; next processFrame or
\* `await videoEncoder.flush()`.  throws: new VideoFrame / encode threw
\* inside the listener, so resolve() is never reached.
onSeeked(w, j, throws) ==
  LET t == w.jobs[j].k
      d == drawFrameToCanvas(w, t)
  IN IF throws THEN [d EXCEPT !.jobs[j].pc = "hung",
                              !.jobs[j].fastError = TRUE]
     ELSE LET e == [d EXCEPT
                     !.jobs[j].frames =
                        Append(@, [ts |-> t, pos |-> w.video.currentTime,
                                   key |-> IsKeyFrame(t)]),
                     !.exportProgress = FastProgress(t + 1)]
          IN IF t + 1 < NumFrames THEN processFrame(e, j, t + 1)
             ELSE [e EXCEPT !.jobs[j].pc = "vflush"]

Listeners == {j \in Jobs : jobs[j].pc = "seek"}

RECURSIVE FireSeeked(_, _, _)
FireSeeked(w, L, T) ==
  IF L = {} THEN w
  ELSE LET j == MinOf(L)
       IN FireSeeked(onSeeked(w, j, j \in T), L \ {j}, T)

\* the source finished a seek: 'seeked' is dispatched to every listener
Seeked ==
  /\ video.seeking
  /\ \E T \in SUBSET Listeners :
       Commit(FireSeeked([World EXCEPT !.video.seeking = FALSE], Listeners, T))
  /\ UNCHANGED <<nJobs, captions, numericCaptions, style, fixed, nOps>>

\* the source failed to complete a seek: no 'seeked' is dispatched
SeekError ==
  /\ video.seeking
  /\ video' = [video EXCEPT !.seeking = FALSE]
  /\ jobs' = Forget(jobs)
  /\ UNCHANGED <<nJobs, isExporting, exportProgress, captions,
                 numericCaptions, style,
                 textLayoutCache, fixed, nOps>>

\* `await videoEncoder.flush()` settles: finalize and save, then finally
VideoFlushed(j) ==
  /\ jobs[j].pc = "vflush"
  /\ \/ Commit([World EXCEPT !.jobs[j].muxer = "finalized",
                             !.jobs[j].fastFiles = @ + 1,
                             !.jobs[j].pc = "done",
                             !.isExporting = FALSE,
                             !.video = SetCurrentTime(@, jobs[j].fOrig)])
     \/ \E o \in RtOutcomes : Commit(FastCatchFinally(World, j, o))
  /\ UNCHANGED <<nJobs, captions, numericCaptions, style, fixed, nOps>>

\* -------------------------------------------- realtime recording loop
\* Math.floor((video.currentTime / video.duration) * 100)
RealtimeProgress(t) == (100 * t) \div NumFrames

\* drawFrame of handleRealtimeExport; isExporting is the value the handler
\* closed over when Export was clicked
drawFrame(w, j) ==
  IF ~w.jobs[j].seen /\ w.video.paused THEN [w EXCEPT !.jobs[j].pc = "dead"]
  ELSE IF Ended(w.video) THEN [w EXCEPT !.jobs[j].pc = "stopping"]
  ELSE [drawFrameToCanvas(w, w.video.currentTime) EXCEPT
          !.exportProgress = RealtimeProgress(w.video.currentTime),
          !.jobs[j].pc = "loop"]

\* `await video.play()` resolves: first drawFrame() call
PlayResolved(j) ==
  /\ jobs[j].pc = "play"
  /\ ~video.paused
  /\ Commit(drawFrame(World, j))
  /\ UNCHANGED <<nJobs, captions, numericCaptions, style, fixed, nOps>>

\* `await video.play()` rejects (not allowed, or aborted by a pause)
PlayRejected(j) ==
  /\ jobs[j].pc = "play"
  /\ Commit(RealtimeCatch([World EXCEPT !.video.paused = TRUE], j))
  /\ UNCHANGED <<nJobs, captions, numericCaptions, style, fixed, nOps>>

\* requestAnimationFrame(drawFrame) fires
AnimationFrame(j) ==
  /\ jobs[j].pc = "loop"
  /\ Commit(drawFrame(World, j))
  /\ UNCHANGED <<nJobs, captions, numericCaptions, style, fixed, nOps>>

\* mediaRecorder.stop() completes: ondataavailable, then onstop
RecorderStopped(j) ==
  /\ jobs[j].pc = "stopping"
  /\ Commit([World EXCEPT
       !.jobs[j].chunks = @ + 1,
       !.jobs[j].rtFiles = @ + 1,
       !.jobs[j].mediaRecorder = "inactive",
       !.jobs[j].pc = "done",
       !.video = [SetCurrentTime(@, jobs[j].rOrig.time) EXCEPT
                    !.volume = jobs[j].rOrig.volume,
                    !.muted = jobs[j].rOrig.muted],
       !.isExporting = FALSE])
  /\ UNCHANGED <<nJobs, captions, numericCaptions, style, fixed, nOps>>

\* ------------------------------------------------ the source's playback
PlaybackAdvance ==
  /\ ~video.paused /\ ~video.seeking /\ video.currentTime < NumFrames
  /\ video' = [video EXCEPT !.currentTime = @ + 1]
  /\ jobs' = Forget(jobs)
  /\ UNCHANGED <<nJobs, isExporting, exportProgress, captions,
                 numericCaptions, style,
                 textLayoutCache, fixed, nOps>>

\* playback reached the end: the element pauses itself
PlaybackEnded ==
  /\ ~video.paused /\ ~video.seeking /\ Ended(video)
  /\ video' = [video EXCEPT !.paused = TRUE]
  /\ jobs' = Forget(jobs)
  /\ UNCHANGED <<nJobs, isExporting, exportProgress, captions,
                 numericCaptions, style,
                 textLayoutCache, fixed, nOps>>

\* ---------------------------------------------------- operator actions
\* native controls of the <video> (controls={!isExporting})
VideoControls ==
  /\ ~isExporting
  /\ nOps < MaxUserOps
  /\ nOps' = nOps + 1
  /\ \/ video' = [video EXCEPT !.paused = TRUE]
     \/ /\ video.paused
        /\ video' = IF Ended(video)
                    THEN [SetCurrentTime(video, 0) EXCEPT !.paused = FALSE]
                    ELSE [video EXCEPT !.paused = FALSE]
     \/ video' = [video EXCEPT !.muted = ~@]
     \/ \E x \in Volumes : video' = [video EXCEPT !.volume = x]
  /\ video' # video
  /\ jobs' = Forget(jobs)
  /\ UNCHANGED <<nJobs, isExporting, exportProgress, captions,
                 numericCaptions, style,
                 textLayoutCache, fixed>>

handleWaveformClick(x) ==
  /\ ~isExporting
  /\ nOps < MaxUserOps
  /\ nOps' = nOps + 1
  /\ video' = SetCurrentTime(video, x)
  /\ jobs' = Forget(jobs)
  /\ UNCHANGED <<nJobs, isExporting, exportProgress, captions,
                 numericCaptions, style,
                 textLayoutCache, fixed>>

\* handleCaptionChange that puts the edited segments last
handleCaptionChangeMovesLast(id, newText) ==
  /\ ~isExporting
  /\ nOps < MaxUserOps
  /\ nOps' = nOps + 1
  /\ LET Edited(c) == c.id = id
         Other(c) == c.id # id
         edited == SelectSeq(captions, Edited)
     IN captions' = SelectSeq(captions, Other)
                      \o [i \in DOMAIN edited |->
                            [edited[i] EXCEPT !.text = newText]]
  /\ captions' # captions
  /\ numericCaptions' = ToNumeric(captions')
  /\ textLayoutCache' = IF id \in DOMAIN textLayoutCache
                        THEN [textLayoutCache EXCEPT ![id] = NoEntry]
                        ELSE textLayoutCache
  /\ jobs' = Forget(jobs)
  /\ UNCHANGED <<video, nJobs, isExporting, exportProgress, style, fixed>>

\* textarea onChange (disabled={isExporting})
handleCaptionChange(id, newText) ==
  /\ ~isExporting
  /\ nOps < MaxUserOps
  /\ nOps' = nOps + 1
  /\ captions' = [i \in DOMAIN captions |->
                    IF captions[i].id = id
                    THEN [captions[i] EXCEPT !.text = newText]
                    ELSE captions[i]]
  /\ captions' # captions
  /\ numericCaptions' = ToNumeric(captions')
  /\ textLayoutCache' = IF id \in DOMAIN textLayoutCache
                        THEN [textLayoutCache EXCEPT ![id] = NoEntry]
                        ELSE textLayoutCache
  /\ jobs' = Forget(jobs)
  /\ UNCHANGED <<video, nJobs, isExporting, exportProgress, style, fixed>>

\* a change of selectedFont, fontSize or visualMaxWords (controls
\* disabled={isExporting}) and the cache effect that follows the render
SetStyle(st) ==
  /\ ~isExporting
  /\ nOps < MaxUserOps
  /\ nOps' = nOps + 1
  /\ st # style
  /\ style' = st
  /\ textLayoutCache' = EmptyCache
  /\ jobs' = Forget(jobs)
  /\ UNCHANGED <<video, nJobs, isExporting, exportProgress, captions,
                 numericCaptions, fixed>>

setSelectedFont(f) == SetStyle([style EXCEPT !.selectedFont = f])

setFontSize(x) == SetStyle([style EXCEPT !.fontSize = x])

\* the slider's largest value stands for "unlimited" (100)
Unlimited == 100
MaxWordsValues == 1..MaxWordsTried \cup {Unlimited}
setVisualMaxWords(val) == SetStyle([style EXCEPT !.visualMaxWords = val])

NoDownload == <<>>

(***************************************************************************)
(* Caption animation (drawFrameToCanvas, "Animation Logic").  Times are in *)
(* milliseconds; every real number is an exact fraction <<num, den>> with  *)
(* den > 0, so the arithmetic below is that of the reals, not of doubles.  *)
(***************************************************************************)
Animations == {"none", "fade", "slide", "pop", "bounce", "glow", "shake"}
bounceDuration == 600
fadeDuration == 250
slideDuration == 300
popDuration == 300
shakeDuration == 500
captionY == 90

One == <<1, 1>>
Zero == <<0, 1>>
\* Math.sin is not computed: a call returns some value of [-1, 1], given in
\* thousandths
SineSamples == {-1000, -500, 0, 500, 1000}

\* a progress that is allowed to pass 1
ProgressUnclamped(elapsed, duration) == Max(0, elapsed)
\* Math.max(0, Math.min(1, elapsed / duration)), as a numerator over duration
Progress(elapsed, duration) == Max(0, Min(duration, elapsed))

\* the bounce's yOffset * scaleFactor * 50, with progress = pn / d
BounceTranslate(pn, d, height) ==
  IF 10 * pn < 3 * d THEN <<-((3 * d - 10 * pn) * height), 3 * d>>
  ELSE IF 10 * pn < 5 * d THEN <<-((10 * pn - 3 * d) * height), 4 * d>>
  ELSE IF 10 * pn < 7 * d THEN <<-((7 * d - 10 * pn) * height), 4 * d>>
  ELSE IF 10 * pn < 9 * d THEN <<-((10 * pn - 7 * d) * height), 20 * d>>
  ELSE <<-((d - pn) * height), d>>

\* what the context holds when the caption is drawn: globalAlpha, the net
\* translation and scale of the transform, and the shadow blur
Still(kind, elapsed) ==
  [kind |-> kind, elapsed |-> elapsed, alpha |-> One,
   tx |-> Zero, ty |-> Zero, scale |-> One, shadowBlur |-> Zero]

AnimationLogic(kind, elapsed, sine, width, height) ==
  LET base == Still(kind, elapsed) IN
  CASE kind = "fade" ->
         LET pn == Progress(elapsed, fadeDuration) IN
         [base EXCEPT !.alpha = <<pn, fadeDuration>>]
    [] kind = "slide" ->
         LET pn == Progress(elapsed, slideDuration) IN
         [base EXCEPT !.alpha = <<pn, slideDuration>>,
                      !.ty = <<(slideDuration - pn) * height,
                               20 * slideDuration>>]
    [] kind = "pop" ->
         LET pn == Progress(elapsed, popDuration) IN
         [base EXCEPT !.alpha = <<pn, popDuration>>,
                      !.scale = <<popDuration + pn, 2 * popDuration>>,
                      !.tx = <<width * (popDuration - pn), 4 * popDuration>>,
                      !.ty = <<height * captionY * (popDuration - pn),
                               200 * popDuration>>]
    [] kind = "bounce" ->
         LET pn == Progress(elapsed, bounceDuration) IN
         [base EXCEPT !.alpha = IF 10 * pn < 3 * bounceDuration
                                  THEN <<10 * pn, 3 * bounceDuration>>
                                  ELSE One,
                      !.ty = BounceTranslate(pn, bounceDuration, height)]
    [] kind = "glow" ->
         [base EXCEPT !.shadowBlur =
                        <<(10000 + 15 * (sine + 1000)) * height, 2000000>>]
    [] kind = "shake" ->
         LET pn == Progress(elapsed, shakeDuration) IN
         IF pn < shakeDuration
           THEN [base EXCEPT !.tx = <<sine * 25 * (shakeDuration - pn) * width,
                                      shakeDuration * 1000000>>]
           ELSE base
    [] OTHER -> base

NoOverlay == Still("none", 0)

(***************************************************************************)
(* JavaScript numbers.  The frame loop of handleFastExport computes with   *)
(* IEEE 754 doubles.  A non-negative double of the loop is held exactly, as*)
(* a whole number of units of 2^-57 (the last place of 1/30), written as   *)
(* its bits, lowest first.                                                 *)
(***************************************************************************)
FracBits == 57
GuardBits == 8
Width == 90
Precision == 53
Bit == 1..Width
\* the function f with every value computed
Eager(f) == f @@ <<>>
ZeroBits == Eager([i \in Bit |-> 0])

\* the bits of a natural below 2^30
NatBits(n) ==
  Eager([i \in Bit |-> IF i <= 30 THEN (n \div (2 ^ (i - 1))) % 2 ELSE 0])
ShiftLeft(a, s) == Eager([i \in Bit |-> IF i > s THEN a[i - s] ELSE 0])
ShiftRight(a, s) ==
  Eager([i \in Bit |-> IF i + s <= Width THEN a[i + s] ELSE 0])
\* the double of a whole number
FromInt(n) == ShiftLeft(NatBits(n), FracBits)

\* the carry into bit i of a + b: some lower bit generates one and every bit
\* between passes it on
Carry(a, b, i) ==
  IF \E j \in 1..(i - 1) :
       /\ a[j] + b[j] = 2
       /\ \A k \in (j + 1)..(i - 1) : a[k] + b[k] >= 1
  THEN 1 ELSE 0
\* a + b in the reals
ExactSum(a, b) ==
  Eager([i \in Bit |-> (a[i] + b[i] + Carry(a, b, i)) % 2])

RECURSIVE TopBit(_, _)
TopBit(a, i) == IF i = 0 \/ a[i] = 1 THEN i ELSE TopBit(a, i - 1)

\* round to nearest, ties to even, to the 53 bits of a double
RoundToDouble(a) ==
  LET q == TopBit(a, Width) - Precision
  IN IF q <= 0 THEN a
     ELSE LET kept == Eager([i \in Bit |-> IF i > q THEN a[i] ELSE 0])
              up == /\ a[q] = 1
                    /\ \/ a[q + 1] = 1
                       \/ \E i \in 1..(q - 1) : a[i] = 1
          IN IF up THEN ExactSum(kept, ShiftLeft(NatBits(1), q)) ELSE kept

\* a + b, a < b, a * n for a whole n, as the doubles compute them
Plus(a, b) == RoundToDouble(ExactSum(a, b))

RECURSIVE LessFrom(_, _, _)
LessFrom(a, b, i) ==
  IF i = 0 THEN FALSE
  ELSE IF a[i] # b[i] THEN a[i] < b[i] ELSE LessFrom(a, b, i - 1)
Less(a, b) == LessFrom(a, b, Width)

RECURSIVE TimesFrom(_, _, _, _)
TimesFrom(a, n, s, acc) ==
  IF n = 0 THEN acc
  ELSE The({TimesFrom(a, n \div 2, s + 1, sum)
            : sum \in {IF n % 2 = 1 THEN ExactSum(acc, ShiftLeft(a, s))
                                    ELSE acc}})
Product(a, n) == RoundToDouble(TimesFrom(a, n, 0, ZeroBits))

\* the whole part of a double below 2^30, as an integer
RECURSIVE IntFrom(_, _)
IntFrom(a, i) ==
  IF i > 30 THEN 0 ELSE a[FracBits + i] * (2 ^ (i - 1)) + IntFrom(a, i + 1)
IntegerPart(a) == IntFrom(a, 1)
MathFloor(a) == IntegerPart(a)
\* Math.round: floor(x + 0.5), computed exactly
MathRound(a) == IntegerPart(ExactSum(a, ShiftLeft(NatBits(1), FracBits - 1)))

\* long division of 2^(pos - 1) by d, highest bit first: <<quotient bits,
\* remainder>>
RECURSIVE DivFrom(_, _, _, _)
DivFrom(d, pos, rem, acc) ==
  IF pos = 0 THEN <<acc, rem>>
  ELSE LET r == 2 * rem + (IF acc = <<>> THEN 1 ELSE 0)
       IN DivFrom(d, pos - 1, IF r >= d THEN r - d ELSE r,
                  Append(acc, IF r >= d THEN 1 ELSE 0))

\* 1 / d for a whole d that is not a power of two, 2 < d < 256
Reciprocal(d) ==
  LET n == FracBits + GuardBits + 1
      res == DivFrom(d, n, 0, <<>>)
      jam == Eager([i \in Bit |->
                      IF i > n THEN 0
                      ELSE IF i = 1 /\ res[2] # 0 THEN 1
                      ELSE res[1][n + 1 - i]])
  IN ShiftRight(RoundToDouble(jam), GuardBits)

\* ------------------------------------- the frame loop of handleFastExport
\* const interval = 1 / fps
interval == Reciprocal(Fps)
MicrosPerSecond == 1000000

\* keyFrame with Math.floor in place of Math.round
keyFrameFloor(t) ==
  t = ZeroBits \/ MathFloor(Product(t, Fps)) % KeyFrameEvery = 0

\* keyFrame: t === 0 || (Math.round(t * fps) % (2 * fps)) === 0
keyFrame(t) ==
  t = ZeroBits \/ MathRound(Product(t, Fps)) % KeyFrameEvery = 0

\* new VideoFrame(canvas, { timestamp: t * 1_000_000 }): the timestamp is an
\* integer of microseconds, the product's whole part
VideoFrame(t) ==
  [timestamp |-> IntegerPart(Product(t, MicrosPerSecond)),
   keyFrame |-> keyFrame(t)]

NoRender == [pc |-> "idle", duration |-> 0, currentTime |-> ZeroBits,
             frames |-> <<>>]

(***************************************************************************)
(* geminiService.ts: retry with exponential backoff and abort support.     *)
(* An error is its message, a sequence of words.                           *)
(***************************************************************************)
CancelMessage == <<"Operation", " ", "cancelled", " ", "by", " ", "user">>
FetchMessage == <<"Failed", " ", "to", " ", "fetch">>
NetworkMessage == <<"network", " ", "unreachable">>
ServerMessage == <<"Internal", " ", "error">>
Messages == {CancelMessage, FetchMessage, NetworkMessage, ServerMessage}

\* msg.includes(part)
includes(msg, part) == \E i \in 1..Len(msg) : StartsWithAt(msg, part, i)

\* const isNetworkError = msg.includes("fetch") || ...
isNetworkError(msg) ==
  \/ includes(msg, <<"fetch">>)
  \/ includes(msg, <<"network">>)
  \/ includes(msg, <<"Failed", " ", "to", " ", "upload">>)
  \/ includes(msg, <<"TypeError", ":", " ", "Failed", " ", "to", " ", "fetch">>)

\* a call of retry: where it stands ("idle" before the call, "fn" while fn
\* is pending, "wait" in delayWithAbort, "resolved", "rejected"), the
\* arguments of the current (recursive) call, and what it did so far
NoCall ==
  [pc |-> "idle", retries |-> 0, delay |-> 0, aborted |-> FALSE,
   args |-> [retries |-> 0, delay |-> 0],
   invoked |-> 0, waits |-> <<>>, thrown |-> <<>>, error |-> <<>>]

Reject(c, msg) == [c EXCEPT !.pc = "rejected", !.error = msg]

\* delayWithAbort(ms, signal)
delayWithAbort(c, ms, aborted) ==
  IF aborted THEN Reject(c, CancelMessage)
  ELSE [c EXCEPT !.pc = "wait", !.waits = Append(@, ms)]

\* a catch block that retries after every error
retryCatchAnyError(c, msg, aborted) ==
  IF msg = CancelMessage THEN Reject(c, msg)
  ELSE IF c.retries > 0 THEN delayWithAbort(c, c.delay, aborted)
  ELSE Reject(c, msg)

\* the catch block of retry
retryCatch(c, msg, aborted) ==
  IF msg = CancelMessage THEN Reject(c, msg)
  ELSE IF c.retries > 0 /\ isNetworkError(msg)
  THEN delayWithAbort(c, c.delay, aborted)
  ELSE Reject(c, msg)

\* retry(fn, retries, delay, signal) up to `await fn()`
retry(c, aborted) ==
  IF aborted THEN retryCatch(c, CancelMessage, aborted)
  ELSE [c EXCEPT !.pc = "fn", !.invoked = @ + 1]

\* fn rejects with msg
fnRejected(c, msg, aborted) ==
  retryCatch([c EXCEPT !.thrown = Append(@, msg)], msg, aborted)

\* the timer of delayWithAbort fires: return retry(fn, retries - 1, delay * 2)
timerFired(c, aborted) ==
  retry([c EXCEPT !.retries = @ - 1, !.delay = @ * 2], aborted)

\* the abort listener of delayWithAbort
abortListener(c) == IF c.pc = "wait" THEN Reject(c, CancelMessage) ELSE c

(***************************************************************************)
(* App.tsx: caption generation requests and their cancellation.            *)
(***************************************************************************)
MaxRequests == 2       \* caption generation requests per behaviour
MaxRetries == 3        \* largest `retries` argument tried
Requests == 1..MaxRequests

\* generateVideoCaptions of one request: "read" awaits fileToBase64,
\* "generate" awaits ai.models.generateContent inside retry, "backoff"
\* awaits delayWithAbort inside retry, "done" when processVideo returned
NoRequest == [pc |-> "none", aborted |-> FALSE, call |-> NoCall]

\* useState / useRef of App; a controller is the number of its request and
\* 0 is null; uploadProgress stays undefined for files under the inline limit
NoApp ==
  [appState |-> "IDLE", currentVideo |-> 0, analysisResult |-> "null",
   errorMsg |-> <<>>, statusMessage |-> "", abortControllerRef |-> 0,
   nRequests |-> 0, reqs |-> [r \in Requests |-> NoRequest]]

NoResponseMessage == <<"No", " ", "response", " ", "received">>
SyntaxMessage == <<"Unexpected", " ", "token">>
ApiNotFoundMessage == <<"404", " ", "Not", " ", "Found">>
ModelNotFoundMessage == <<"The", " ", "requested", " ", "Gemini", " ", "model">>
DefaultMessage == <<"Failed", " ", "to", " ", "generate", " ", "captions">>
\* a FileReader error event: it has no message
NoMessage == <<>>

\* resetApp
resetApp(a) ==
  [a EXCEPT !.appState = "IDLE", !.currentVideo = 0,
            !.analysisResult = "null", !.errorMsg = <<>>,
            !.statusMessage = ""]

\* processVideo after generateVideoCaptions resolved, with its finally
processResolved(a, r) ==
  [a EXCEPT !.abortControllerRef = 0, !.analysisResult = "result",
            !.appState = "SUCCESS", !.reqs[r].pc = "done"]

\* the catch and finally blocks of processVideo
processRejected(a, r, msg) ==
  IF msg = CancelMessage
  THEN [a EXCEPT !.abortControllerRef = 0, !.reqs[r].pc = "done"]
  ELSE [a EXCEPT !.errorMsg = IF msg = NoMessage THEN DefaultMessage ELSE msg,
                 !.appState = "ERROR",
                 !.abortControllerRef = 0, !.reqs[r].pc = "done"]

\* the catch block of generateVideoCaptions: an error whose JSON text holds
\* "404" (an API error with its status) is replaced, any other is rethrown
generateCatch(msg) ==
  IF includes(msg, <<"404">>) THEN ModelNotFoundMessage ELSE msg

\* generateVideoCaptions rejects with msg
generateRejected(a, r, msg) == processRejected(a, r, generateCatch(msg))

Init ==
  /\ video = [currentTime |-> 0, paused |-> TRUE, muted |-> FALSE,
              volume |-> 1, seeking |-> FALSE, videoWidth |-> 10,
              videoHeight |-> 20]
  /\ jobs = [j \in Jobs |-> NoJob]
  /\ nJobs = 0
  /\ isExporting = FALSE
  /\ exportProgress = 0
  /\ srt \in SampleSrts
  /\ captions = parseSRT(srt)
  /\ numericCaptions = ToNumeric(captions)
  /\ style = [selectedFont |-> "Inter", fontSize |-> 5,
              visualMaxWords |-> Unlimited, selectedAnimation |-> "none"]
  /\ textLayoutCache = EmptyCache
  /\ hasVideoEncoder \in BOOLEAN
  /\ nOps = 0
  /\ download = NoDownload
  /\ overlay = NoOverlay
  /\ app = NoApp
  /\ retryCall = NoCall
  /\ render = NoRender

Next ==
  \/ \E j \in Jobs : handleFastExport(j)
  \/ \E j \in Jobs : DecodeDone(j)
  \/ \E j \in Jobs : AudioFlushed(j)
  \/ Seeked
  \/ SeekError
  \/ \E j \in Jobs : VideoFlushed(j)
  \/ \E j \in Jobs : PlayResolved(j)
  \/ \E j \in Jobs : PlayRejected(j)
  \/ \E j \in Jobs : AnimationFrame(j)
  \/ \E j \in Jobs : RecorderStopped(j)
  \/ PlaybackAdvance
  \/ PlaybackEnded
  \/ VideoControls
  \/ \E x \in Times : handleWaveformClick(x)
  \/ \E id \in CaptionIds, t \in Texts : handleCaptionChange(id, t)
  \/ \E f \in Fonts : setSelectedFont(f)
  \/ \E x \in FontSizes : setFontSize(x)
  \/ \E val \in MaxWordsValues : setVisualMaxWords(val)

Spec == Init /\ [][Next]_vars
\* the scheduling the browser guarantees: a pending animation frame, recorder
\* stop, seek completion and the source's own playback steps are not starved
Fairness ==
  /\ \A j \in Jobs : WF_vars(AnimationFrame(j))
  /\ \A j \in Jobs : WF_vars(RecorderStopped(j))
  /\ \A j \in Jobs : WF_vars(PlayResolved(j))
  /\ WF_vars(PlaybackAdvance)
  /\ WF_vars(PlaybackEnded)
  /\ WF_vars(Seeked)

FairSpec == Init /\ [][Next]_vars /\ Fairness

\* ------------------------------------------------------------ properties
InFlight(j) == jobs[j].pc \in FastPcs \cup RtPcs

Started(j) == jobs[j].pc \notin {"none", "gone"}

\* C1: from the start of an export until its output is written or it fails
\* (a fallback started by a failed frame-accurate export included)
\* isExporting is true and no other export is in flight.
C1_SingleExportInFlight ==
  \A j \in Jobs :
    InFlight(j) => /\ isExporting
                   /\ \A i \in Jobs \ {j} : ~InFlight(i)

\* C2: in the frame-accurate export frames reach the video encoder in
\* strictly increasing timestamp order, frame k+1 is not sought before frame
\* k was encoded, and every frame is encoded after 'seeked' for its own
\* timestamp, i.e. drawn from the source positioned at that timestamp.
C2_FramesInOrder ==
  \A j \in Jobs :
    /\ \A i \in DOMAIN jobs[j].frames :
         /\ jobs[j].frames[i].ts = i - 1
         /\ jobs[j].frames[i].pos = jobs[j].frames[i].ts
    /\ jobs[j].pc = "seek" => Len(jobs[j].frames) = jobs[j].k

\* C3: when a frame-accurate primitive is unavailable or an encoder or seek
\* error occurs in the frame-accurate export, no frame-accurate file is
\* written and the realtime fallback has been started.
C3_FallbackOnFastFailure ==
  \A j \in Jobs :
    (Started(j) /\ (jobs[j].fastError \/ ~hasVideoEncoder)) =>
       /\ jobs[j].fastFiles = 0
       /\ jobs[j].rtStarts >= 1

\* C4: the realtime fallback is attempted at most once per request, and when
\* it fails a failure is reported and isExporting is false.
C4_FallbackOnceAndReported ==
  \A j \in Jobs :
    /\ jobs[j].rtStarts <= 1
    /\ jobs[j].pc \in {"failed", "noctx"} =>
         /\ "failed" \in jobs[j].notices
         /\ ~isExporting

\* C5: in the realtime export, once recording has started and the source
\* has reached its end, the recorder is eventually stopped, one file is
\* assembled from the recorded chunks and isExporting becomes false.
C5_RecordingEventuallySaved ==
  \A j \in Jobs :
    (jobs[j].pc = "loop" /\ jobs[j].mediaRecorder = "recording"
       /\ Ended(video))
    ~> (jobs[j].pc = "done" /\ jobs[j].rtFiles = 1 /\ jobs[j].chunks = 1
          /\ jobs[j].mediaRecorder = "inactive" /\ ~isExporting)

SourceState == [time |-> video.currentTime, volume |-> video.volume,
                muted |-> video.muted]

\* C6: when an export has ended, by any path, the source's playback
\* position, volume and muted flag are those it had when the export started.
C6_SourceRestored ==
  \A j \in Jobs : jobs[j].pc \in EndedPcs => SourceState = jobs[j].start

\* C7: when an export has ended, every encoder, muxer, audio context and
\* stream recorder it opened has been closed or stopped.
C7_HandlesReleased ==
  \A j \in Jobs :
    jobs[j].pc \in EndedPcs =>
      /\ jobs[j].muxer \in {"none", "finalized"}
      /\ jobs[j].videoEncoder \in {"none", "closed"}
      /\ jobs[j].audioEncoder \in {"none", "closed"}
      /\ jobs[j].audioCtx \in {"none", "closed"}
      /\ jobs[j].mediaRecorder \in {"none", "inactive"}

\* what the operator can do
OperatorAction ==
  \/ \E j \in Jobs : handleFastExport(j)
  \/ VideoControls
  \/ \E x \in Times : handleWaveformClick(x)
  \/ \E id \in CaptionIds, t \in Texts : handleCaptionChange(id, t)
  \/ \E f \in Fonts : setSelectedFont(f)
  \/ \E x \in FontSizes : setFontSize(x)
  \/ \E val \in MaxWordsValues : setVisualMaxWords(val)

\* an operator step that cancels export j
Cancels(j) ==
  /\ OperatorAction
  /\ jobs'[j].pc \notin FastPcs \cup RtPcs
  /\ jobs'[j].fastFiles = 0 /\ jobs'[j].rtFiles = 0
  /\ "failed" \notin jobs'[j].notices
  /\ video'.currentTime = jobs[j].start.time
  /\ ~isExporting'

\* C8: an in-flight export can be cancelled by the operator at any point,
\* leaving no output file, no failure notice, the source at its pre-export
\* time and isExporting false.
C8_Cancellable == \A j \in Jobs : InFlight(j) => ENABLED Cancels(j)

\* C9: the progress reported after each frame of the frame-accurate export
\* is floor(100 t / duration) clamped to 99, and once finalize has completed
\* and the file is written the reported progress is 100.
C9_ProgressReported ==
  [][\A j \in Jobs :
       /\ (jobs[j].pc = "seek" /\ jobs'[j].pc \in {"seek", "vflush"}
             /\ Len(jobs'[j].frames) = Len(jobs[j].frames) + 1
             /\ Cardinality(Listeners) = 1)
          => exportProgress' = Min(99, (100 * Len(jobs'[j].frames)) \div NumFrames)
       /\ (jobs[j].pc = "vflush" /\ jobs'[j].fastFiles = 1)
          => exportProgress' = 100]_vars

\* C10: no step of an export changes the captions or the style, and when an
\* export ends in failure isExporting is false, so that captions and style
\* can be edited and a new export started.
C10_FailureContained ==
  [][/\ jobs' # Forget(jobs) => (captions' = captions /\ style' = style)
     /\ \A j \in Jobs :
          (InFlight(j) /\ jobs'[j].pc \in {"failed", "noctx"})
             => ~isExporting']_vars

C10_Witness ==
  \E j \in Jobs : /\ jobs[j].pc = "failed"
                  /\ jobs[j].fastError
                  /\ ~isExporting

\* no export is running or stuck
Idle == \A j \in Jobs : ~InFlight(j) /\ jobs[j].pc \notin StuckPcs

\* C11: after any change of font, font size or visual max-words, and after
\* any caption text edit, the layout cache contains no entries at all
\* (stated for the changes made while no export is running, when nothing
\* refills the cache).
C11_WholeCacheInvalidated ==
  [][(Idle /\ (style' # style \/ captions' # captions))
       => textLayoutCache' = EmptyCache]_vars

\* ------------------------------------------------- the layout on its own
\* One caption, shown on frame 0, with any text of up to MaxTextLen
\* characters, rendered once under any canvas width, font, font size and
\* Max Words value.
LayoutChars == {"a", "b", " "}
LayoutTexts == SeqsUpTo(LayoutChars, MaxTextLen)
VideoWidths == {5 * m : m \in 1..MaxWidthUnits}

LayoutInit ==
  /\ \E vw \in VideoWidths :
       video = [currentTime |-> 0, paused |-> TRUE, muted |-> FALSE,
                volume |-> 1, seeking |-> FALSE, videoWidth |-> vw,
                videoHeight |-> 20]
  /\ jobs = [j \in Jobs |-> NoJob]
  /\ nJobs = 0
  /\ isExporting = FALSE
  /\ exportProgress = 0
  /\ srt = <<>>
  /\ \E text \in LayoutTexts :
       captions = <<[id |-> 1, startTime |-> Stamp(",", "000"),
                     endTime |-> Stamp(",", "100"), text |-> text]>>
  /\ numericCaptions = ToNumeric(captions)
  /\ \E f \in Fonts, x \in FontSizes, val \in MaxWordsValues :
       style = [selectedFont |-> f, fontSize |-> x,
                visualMaxWords |-> val, selectedAnimation |-> "none"]
  /\ textLayoutCache = EmptyCache
  /\ hasVideoEncoder = TRUE
  /\ nOps = 0
  /\ download = NoDownload
  /\ overlay = NoOverlay
  /\ app = NoApp
  /\ retryCall = NoCall
  /\ render = NoRender

\* one frame is rendered: drawFrameToCanvas(ctx, video, w, h, 0)
RenderFrame ==
  /\ textLayoutCache = EmptyCache
  /\ Commit(drawFrameToCanvas(World, 0))
  /\ UNCHANGED <<nJobs, captions, numericCaptions, style, fixed, nOps>>

LayoutNext == RenderFrame

LayoutSpec == LayoutInit /\ [][LayoutNext]_vars

\* the rendered caption, its lines, and the limits they were laid out under
LaidText == captions[1].text
LaidLines == textLayoutCache[1]
LaidOut == LaidLines # NoEntry
LimitWidth == MaxWidthOf(video)
LimitWords == style.visualMaxWords

\* what a line measures on the canvas, and the words it shows
LineWidth(line) == measureText(line, style)
WordsOf(line) == split(line, Space)

\* the single-line rule: the whole text fits in width and in words
SingleLineRule ==
  LineWidth(LaidText) <= LimitWidth /\ Len(WordsOf(LaidText)) <= LimitWords

\* the two lines of the split before word i (0-based)
SplitAt(i) ==
  <<join(SubSeq(WordsOf(LaidText), 1, i), Space),
    join(SubSeq(WordsOf(LaidText), i + 1, Len(WordsOf(LaidText))), Space)>>

Abs(x) == IF x < 0 THEN -x ELSE x
SplitDiff(i) == Abs(LineWidth(SplitAt(i)[1]) - LineWidth(SplitAt(i)[2]))

ValidSplits ==
  {i \in 1..(Len(WordsOf(LaidText)) - 1) :
     /\ i <= LimitWords /\ Len(WordsOf(LaidText)) - i <= LimitWords
     /\ LineWidth(SplitAt(i)[1]) <= LimitWidth
     /\ LineWidth(SplitAt(i)[2]) <= LimitWidth}

BestSplits == {i \in ValidSplits : \A k \in ValidSplits : SplitDiff(i) <= SplitDiff(k)}

\* C12: when the single-line rule does not apply and some split point is
\* valid (both lines within maxWidth and within max-words), the result is
\* exactly the two lines of the valid split of least width difference, the
\* smallest such split point on ties; so the greedy wrap is used only when
\* no split point is valid.
C12_BalancedSplitOptimal ==
  (LaidOut /\ ~SingleLineRule /\ ValidSplits # {})
     => LaidLines = SplitAt(MinOf(BestSplits))

\* no word of the text is empty (no leading, trailing or doubled space)
ProperWords == \A k \in DOMAIN WordsOf(LaidText) : WordsOf(LaidText)[k] # <<>>

\* of two valid splits the second is the better one
C12_Witness ==
  /\ LaidOut /\ ~SingleLineRule /\ ProperWords
  /\ Cardinality(ValidSplits) >= 2
  /\ Cardinality(BestSplits) = 1
  /\ MinOf(BestSplits) > MinOf(ValidSplits)
  /\ LaidLines = SplitAt(MinOf(BestSplits))

\* C13: every line has at most max-words words, and is no wider than
\* maxWidth unless it is a single word that alone is wider than maxWidth.
C13_LinesWithinLimits ==
  LaidOut =>
    \A n \in DOMAIN LaidLines :
      /\ Len(WordsOf(LaidLines[n])) <= LimitWords
      /\ \/ LineWidth(LaidLines[n]) <= LimitWidth
         \/ Len(WordsOf(LaidLines[n])) = 1

\* a greedy wrap into three lines of a text that fits the width: the lines
\* are broken by the word limit
C13_Witness ==
  /\ LaidOut /\ ProperWords /\ ValidSplits = {}
  /\ LineWidth(LaidText) <= LimitWidth
  /\ Len(LaidLines) >= 3

\* C14 as stated: the result is the text as one line exactly when the
\* single-line rule applies.
C14_SingleLineExactly ==
  LaidOut => (LaidLines = <<LaidText>> <=> SingleLineRule)

\* C14 as amended: when the single-line rule applies the result is the text
\* unmodified as one line; when it does not, the result is the text as one
\* line only if the text is a single word wider than maxWidth.
C14_SingleLineRule ==
  LaidOut =>
    /\ SingleLineRule => LaidLines = <<LaidText>>
    /\ (LaidLines = <<LaidText>> /\ ~SingleLineRule)
         => /\ Len(WordsOf(LaidText)) = 1
            /\ LineWidth(LaidText) > LimitWidth

\* a text of several words that fits is returned as it is
C14_Witness ==
  /\ LaidOut /\ SingleLineRule /\ ProperWords
  /\ Len(WordsOf(LaidText)) >= 2
  /\ LaidLines = <<LaidText>>

\* C15: every render ends with the lines laid out, and a word that alone
\* is wider than maxWidth is, whole, a line of its own.
C15_LongWordAlone ==
  [][/\ textLayoutCache'[1] # NoEntry
     /\ \A n \in DOMAIN textLayoutCache'[1] :
          \A k \in DOMAIN WordsOf(textLayoutCache'[1][n]) :
            LineWidth(WordsOf(textLayoutCache'[1][n])[k]) > LimitWidth
              => Len(WordsOf(textLayoutCache'[1][n])) = 1
     /\ \A k \in DOMAIN WordsOf(LaidText) :
          LineWidth(WordsOf(LaidText)[k]) > LimitWidth
            => \E n \in DOMAIN textLayoutCache'[1] :
                 textLayoutCache'[1][n] = WordsOf(LaidText)[k]]_vars

\* a word too wide for the canvas between two words that fit
C15_Witness ==
  /\ LaidOut /\ ProperWords
  /\ Len(LaidLines) >= 3
  /\ LineWidth(LaidLines[2]) > LimitWidth
  /\ LineWidth(LaidLines[1]) <= LimitWidth /\ LaidLines[1] # <<>>
  /\ LineWidth(LaidLines[3]) <= LimitWidth /\ LaidLines[3] # <<>>

\* C25: the lines a cold getWrappedLines returns (single line, balanced
\* split or greedy wrap), joined with one space, are the caption's text:
\* no word is lost, repeated or moved.
C25_WordsPreserved == LaidOut => join(LaidLines, Space) = LaidText

\* a greedy wrap into three or more lines of a text with an empty word
\* (two spaces in a row, or a space at an end)
C25_Witness ==
  /\ LaidOut /\ ~ProperWords
  /\ ~SingleLineRule /\ ValidSplits = {}
  /\ Len(LaidLines) >= 3
  /\ \E n \in DOMAIN LaidLines : LaidLines[n] = <<>>

\* ---------------------------------------------- subtitle text on its own
\* The component receives a subtitle text, the operator edits caption texts
\* and downloads the .srt file.
TimeLine(sep) == Stamp(sep, "000") \o Arrow \o Stamp(sep, "020")

\* blocks as sequences of lines
SrtBlockLines ==
  { <<<<"1">>, TimeLine(","), <<"a", " ", "b">>>>,       \* well-formed
    <<<<"2">>, TimeLine("."), <<"b">>>>,                 \* dot separator
    <<<<"3">>, TimeLine(","), <<"a">>, <<"b">>>>,        \* two text lines
    <<<<"1">>, TimeLine(","), <<" ", "a", " ">>>>,       \* padded text
    <<<<"2", "a">>, TimeLine(","), <<"a">>>>,            \* id not an integer
    <<TimeLine(","), <<"a">>, <<"b">>>>,                 \* no id line
    <<<<"2">>, Stamp(",", "000") \o <<"-->">> \o Stamp(",", "020"),
      <<"a">>>>,                                         \* no " --> "
    <<<<"3">>, TimeLine(","), <<" ">>>> }                \* text of a space

SrtBlocks == {join(b, NL) : b \in SrtBlockLines}
SrtSeparators == {BlankLine, <<"\n", "\n", "\n">>, <<"\r\n", "\r\n">>}

\* the texts of up to MaxBlocks blocks, each with one kind of separator
SrtInputs ==
  {join(bs, sep) : bs \in SeqsUpTo(SrtBlocks, MaxBlocks) \ {<<>>},
                   sep \in SrtSeparators}
SrtIds == {1, 2, 3}

CaptionInit ==
  /\ video = [currentTime |-> 0, paused |-> TRUE, muted |-> FALSE,
              volume |-> 1, seeking |-> FALSE, videoWidth |-> 10,
              videoHeight |-> 20]
  /\ jobs = [j \in Jobs |-> NoJob]
  /\ nJobs = 0
  /\ isExporting = FALSE
  /\ exportProgress = 0
  /\ srt = <<>>
  /\ captions = <<>>
  /\ numericCaptions = <<>>
  /\ style = [selectedFont |-> "Inter", fontSize |-> 5,
              visualMaxWords |-> Unlimited, selectedAnimation |-> "none"]
  /\ textLayoutCache = EmptyCache
  /\ hasVideoEncoder = TRUE
  /\ nOps = 0
  /\ download = NoDownload
  /\ overlay = NoOverlay
  /\ app = NoApp
  /\ retryCall = NoCall
  /\ render = NoRender

\* the effect on [result.srt]: a generation result arrives
LoadResult(s) ==
  /\ srt = <<>>
  /\ s # <<>>
  /\ srt' = s
  /\ captions' = parseSRT(s)
  /\ numericCaptions' = ToNumeric(captions')
  /\ textLayoutCache' = EmptyCache
  /\ UNCHANGED <<video, jobs, nJobs, isExporting, exportProgress, style,
                 hasVideoEncoder, nOps, download, overlay,
                 render,
                 retryCall,
                 app>>

\* click on Download SRT
handleDownloadSRT ==
  /\ srt # <<>>
  /\ download' = generateSRT(captions)
  /\ UNCHANGED <<video, jobs, nJobs, isExporting, exportProgress, captions,
                 numericCaptions,
                 style, textLayoutCache, hasVideoEncoder, nOps, srt, overlay,
                 render,
                 retryCall,
                 app>>

\* the texts typed into a caption's textarea, the cleared textarea included
EditTexts == Texts \cup {<<>>}

CaptionNext ==
  \/ srt = <<>> /\ \E s \in SrtInputs : LoadResult(s)
  \/ \E id \in SrtIds, t \in EditTexts : handleCaptionChange(id, t)
  \/ handleDownloadSRT

CaptionSpec == CaptionInit /\ [][CaptionNext]_vars

\* --- the subtitle text as the format describes it
\* the lines of a text
LinesOf(s) == split(replaceAll(s, "\r\n", "\n"), NL)

\* a blank line
IsBlank(line) == line = <<>>

\* the blocks: the maximal runs of lines that are not blank
RECURSIVE RunsOf(_, _)
RunsOf(lines, cur) ==
  IF lines = <<>> THEN (IF cur = <<>> THEN <<>> ELSE <<cur>>)
  ELSE IF IsBlank(Head(lines))
       THEN (IF cur = <<>> THEN <<>> ELSE <<cur>>) \o RunsOf(Tail(lines), <<>>)
       ELSE RunsOf(Tail(lines), Append(cur, Head(lines)))

BlocksOf(s) == RunsOf(LinesOf(s), <<>>)

DecimalDigits == {"0", "1", "2", "3", "4", "5", "6", "7", "8", "9"}
IsInteger(line) == line # <<>> /\ \A k \in DOMAIN line : line[k] \in DecimalDigits

\* a timestamp HH:MM:SS,mmm or HH:MM:SS.mmm
IsStamp(x) ==
  /\ Len(x) = 7
  /\ x[2] = ":" /\ x[4] = ":" /\ x[6] \in {",", "."}
  /\ \A k \in {1, 3, 5, 7} : x[k] \in DOMAIN GroupValue

IsTimeLine(line) ==
  \E k \in 1..Len(line) :
    /\ IsStamp(SubSeq(line, 1, k - 1))
    /\ SubSeq(line, k, k + 2) = Arrow
    /\ IsStamp(SubSeq(line, k + 3, Len(line)))

WellFormedBlock(b) ==
  Len(b) >= 3 /\ IsInteger(b[1]) /\ IsTimeLine(b[2])

\* the segment a well-formed block describes
SegmentOf(b) ==
  LET k == CHOOSE k \in 1..Len(b[2]) : SubSeq(b[2], k, k + 2) = Arrow
  IN [id |-> DigitPrefix(b[1], 0),
      startTime |-> SubSeq(b[2], 1, k - 1),
      endTime |-> SubSeq(b[2], k + 3, Len(b[2])),
      text |-> join(SubSeq(b, 3, Len(b)), Space)]

RECURSIVE SegmentsOf(_)
SegmentsOf(bs) ==
  IF bs = <<>> THEN <<>>
  ELSE (IF WellFormedBlock(Head(bs)) THEN <<SegmentOf(Head(bs))>> ELSE <<>>)
         \o SegmentsOf(Tail(bs))

\* the (id, start, end, trimmed text) tuples of a caption sequence
TuplesOf(segs) ==
  [i \in DOMAIN segs |->
     <<segs[i].id, segs[i].startTime, segs[i].endTime, trim(segs[i].text)>>]

\* C16: parseSRT returns, in input order, exactly one segment for every
\* well-formed block (integer id line, "start --> end" line, one or more
\* text lines joined by a single space) and none for a malformed block,
\* however the blocks are separated by blank lines.
C16_ParseBestEffort ==
  [][srt' # srt => TuplesOf(captions') = TuplesOf(SegmentsOf(BlocksOf(srt')))]_vars

\* a text line that shows something
HasText(line) == \E k \in DOMAIN line : line[k] \notin WhiteSpace

\* a subtitle text all of whose blocks are well-formed, with text to show
WellFormedInput(s) ==
  LET bs == BlocksOf(s)
  IN /\ bs # <<>>
     /\ \A i \in DOMAIN bs :
          /\ WellFormedBlock(bs[i])
          /\ \A n \in 3..Len(bs[i]) : HasText(bs[i][n])

C18_CommaOnOutput ==
  \A k \in DOMAIN download : download[k] # "."

\* the lines of the blocks of a downloaded file
DownloadBlocks(d) ==
  LET blocks == split(d, BlankLine)
  IN [i \in DOMAIN blocks |-> split(blocks[i], NL)]

\* C19: a caption text edit changes only the text of the segments with the
\* edited id (their number, order, ids and times stay), and generateSRT
\* writes the segments in their sequence order (read back from the file
\* block by block, which needs every caption to have some text).
C19_EditKeepsOrder ==
  [][/\ (srt' = srt /\ captions' # captions) =>
          /\ Len(captions') = Len(captions)
          /\ \A i \in DOMAIN captions :
               /\ captions'[i].id = captions[i].id
               /\ captions'[i].startTime = captions[i].startTime
               /\ captions'[i].endTime = captions[i].endTime
          /\ \E id \in SrtIds :
               \A i \in DOMAIN captions :
                 captions'[i].text # captions[i].text => captions[i].id = id
     /\ (download' # download /\ captions # <<>>
           /\ \A i \in DOMAIN captions : captions[i].text # <<>>) =>
          DownloadBlocks(download') =
            [i \in DOMAIN captions |->
               <<toString(captions[i].id),
                 captions[i].startTime \o Arrow \o captions[i].endTime,
                 captions[i].text>>]]_vars

\* two captions with different ids, the second one edited, then downloaded
C19_Witness ==
  /\ Len(captions) = 2
  /\ captions[1].id # captions[2].id
  /\ captions[1].text = parseSRT(srt)[1].text
  /\ captions[2].text # parseSRT(srt)[2].text
  /\ download = generateSRT(captions)

\* C27: the file generateSRT writes for the captions at hand, read by
\* parseSRT, is the same caption sequence: as many segments, with the same
\* ids, times and texts in the same order.
C27_GenerateParseSame ==
  [][download' # download => parseSRT(download') = captions]_vars

(***************************************************************************)
(* Animation: one caption drawn at every time since its start.             *)
(***************************************************************************)
AnimInit ==
  /\ video = [currentTime |-> 0, paused |-> TRUE, muted |-> FALSE,
              volume |-> 1, seeking |-> FALSE, videoWidth |-> 10,
              videoHeight |-> 20]
  /\ jobs = [j \in Jobs |-> NoJob]
  /\ nJobs = 0
  /\ isExporting = FALSE
  /\ exportProgress = 0
  /\ srt = SampleSrt
  /\ captions = parseSRT(srt)
  /\ numericCaptions = ToNumeric(captions)
  /\ \E a \in Animations :
       style = [selectedFont |-> "Inter", fontSize |-> 5,
                visualMaxWords |-> Unlimited, selectedAnimation |-> a]
  /\ textLayoutCache = EmptyCache
  /\ hasVideoEncoder = TRUE
  /\ nOps = 0
  /\ download = NoDownload
  /\ overlay = NoOverlay
  /\ app = NoApp
  /\ retryCall = NoCall
  /\ render = NoRender

\* the first frame that is drawn, `elapsed` ms after the active caption's
\* start
RenderOverlay(elapsed, sine) ==
  /\ overlay = NoOverlay
  /\ overlay' = AnimationLogic(style.selectedAnimation, elapsed, sine,
                               video.videoWidth, video.videoHeight)
  /\ UNCHANGED <<video, jobs, nJobs, isExporting, exportProgress, captions,
                 numericCaptions,
                 style, textLayoutCache, hasVideoEncoder, nOps, srt, download,
                 render,
                 retryCall,
                 app>>

AnimNext ==
  \E elapsed \in 0..MaxElapsedMs, sine \in SineSamples :
    RenderOverlay(elapsed, sine)

AnimSpec == AnimInit /\ [][AnimNext]_vars

Duration(kind) ==
  CASE kind = "fade" -> fadeDuration
    [] kind = "slide" -> slideDuration
    [] kind = "pop" -> popDuration
    [] kind = "bounce" -> bounceDuration
    [] kind = "shake" -> shakeDuration
TimeBounded == {"fade", "slide", "pop", "bounce", "shake"}
IsOne(q) == q[2] > 0 /\ q[1] = q[2]
IsZero(q) == q[2] > 0 /\ q[1] = 0
Steady(o) == IsOne(o.alpha) /\ IsZero(o.tx) /\ IsZero(o.ty) /\ IsOne(o.scale)

C23_AudioBeforeVideo ==
  \A j \in Jobs :
    (jobs[j].pc = "seek" \/ jobs[j].frames # <<>>)
      => jobs[j].audioChunks = NumChunks /\ jobs[j].audioFlushed

\* a frame-accurate export that has submitted its frames
C23_Witness ==
  \E j \in Jobs :
    /\ Len(jobs[j].frames) = NumFrames
    /\ jobs[j].audioChunks = NumChunks
    /\ jobs[j].audioFlushed

\* C26: the step in which a failed frame-accurate export starts the realtime
\* fallback leaves the recorder recording with the source at time 0 and
\* isExporting still set: the export's catch and finally do not seek the
\* source away or clear the flag under the running recording.
C26_FallbackUndisturbed ==
  [][\A j \in Jobs :
       (/\ jobs[j].pc \in FastPcs
        /\ jobs'[j].fastError
        /\ jobs'[j].mediaRecorder = "recording")
         => isExporting' /\ video'.currentTime = 0]_vars

\* C24: whenever a frame of the frame-accurate export is drawn and the cache
\* holds an entry under the active caption's id, that entry is the lines a
\* cold layout gives for the caption's text, the style and the width.
C24_CacheCoherent ==
  [][\A j \in Jobs :
       Len(jobs'[j].frames) = Len(jobs[j].frames) + 1 =>
         \A i \in ActiveCaps(jobs[j].k) :
           (i = MinOf(ActiveCaps(jobs[j].k))
              /\ textLayoutCache[numericCaptions[i].id] # NoEntry)
             => textLayoutCache[numericCaptions[i].id]
                  = LayoutLines(numericCaptions[i].text, MaxWidthOf(video),
                                style)]_vars

(***************************************************************************)
(* The frame loop: `while (currentTime < duration)` for a source of a      *)
(* whole number of seconds.                                                *)
(***************************************************************************)
Durations == 1..MaxDuration

FrameInit ==
  /\ video = [currentTime |-> 0, paused |-> TRUE, muted |-> FALSE,
              volume |-> 1, seeking |-> FALSE, videoWidth |-> 10,
              videoHeight |-> 20]
  /\ jobs = [j \in Jobs |-> NoJob]
  /\ nJobs = 0
  /\ isExporting = FALSE
  /\ exportProgress = 0
  /\ srt = SampleSrt
  /\ captions = parseSRT(srt)
  /\ numericCaptions = ToNumeric(captions)
  /\ style = [selectedFont |-> "Inter", fontSize |-> 5,
              visualMaxWords |-> Unlimited, selectedAnimation |-> "none"]
  /\ textLayoutCache = EmptyCache
  /\ hasVideoEncoder = TRUE
  /\ nOps = 0
  /\ download = NoDownload
  /\ overlay = NoOverlay
  /\ app = NoApp
  /\ retryCall = NoCall
  /\ \E d \in Durations :
       render = [NoRender EXCEPT !.pc = "loop", !.duration = d]

\* one turn of the loop: processFrame(currentTime) with its onSeeked, then
\* currentTime += interval
FrameLoopTurn ==
  /\ render.pc = "loop"
  /\ Less(render.currentTime, FromInt(render.duration))
  /\ render' = [render EXCEPT
                  !.frames = Append(@, VideoFrame(render.currentTime)),
                  !.currentTime = Plus(@, interval)]
  /\ UNCHANGED <<video, jobs, nJobs, isExporting, exportProgress, captions,
                 numericCaptions, style, textLayoutCache, hasVideoEncoder,
                 nOps, srt, download, overlay,
                 retryCall,
                 app>>

\* the loop's test fails: `await videoEncoder.flush()`
FrameLoopExit ==
  /\ render.pc = "loop"
  /\ ~Less(render.currentTime, FromInt(render.duration))
  /\ render' = [render EXCEPT !.pc = "vflush"]
  /\ UNCHANGED <<video, jobs, nJobs, isExporting, exportProgress, captions,
                 numericCaptions, style, textLayoutCache, hasVideoEncoder,
                 nOps, srt, download, overlay,
                 retryCall,
                 app>>

FrameNext == FrameLoopTurn \/ FrameLoopExit

FrameSpec == FrameInit /\ [][FrameNext]_vars

\* C21: in the frame-accurate export of a source of D seconds, the frames
\* submitted are those of the indices k with k / 30 < D, one each and in
\* order: frame k carries the timestamp k / 30 s (to the microsecond of the
\* encoder's time base), and when the loop has ended Fps * D frames have been
\* submitted.
C21_OneFramePerIndex ==
  /\ \A i \in DOMAIN render.frames :
       /\ i - 1 < Fps * render.duration
       /\ Fps * render.frames[i].timestamp <= (i - 1) * MicrosPerSecond
       /\ Fps * (render.frames[i].timestamp + 1) >= (i - 1) * MicrosPerSecond
  /\ render.pc = "vflush" => Len(render.frames) = Fps * render.duration

\* C22: frame k of the frame-accurate export is a forced key-frame exactly
\* when k is a multiple of 60; the first frame is one.
C22_KeyFrameEvery60 ==
  \A i \in DOMAIN render.frames :
    render.frames[i].keyFrame <=> (i - 1) % KeyFrameEvery = 0

\* frames 0, 60 and 120 submitted, with frames that are not key-frames
\* between and after them
C22_Witness ==
  /\ Len(render.frames) > 2 * KeyFrameEvery + 1
  /\ render.frames[1].keyFrame
  /\ render.frames[KeyFrameEvery + 1].keyFrame
  /\ render.frames[2 * KeyFrameEvery + 1].keyFrame
  /\ ~render.frames[2 * KeyFrameEvery + 2].keyFrame
(***************************************************************************)
(* retry on its own: one call with every outcome of fn, the timer and the  *)
(* signal.                                                                 *)
(***************************************************************************)
Delays == {1000, 2000}

RetryInit ==
  /\ video = [currentTime |-> 0, paused |-> TRUE, muted |-> FALSE,
              volume |-> 1, seeking |-> FALSE, videoWidth |-> 10,
              videoHeight |-> 20]
  /\ jobs = [j \in Jobs |-> NoJob]
  /\ nJobs = 0
  /\ isExporting = FALSE
  /\ exportProgress = 0
  /\ srt = <<>>
  /\ captions = <<>>
  /\ numericCaptions = <<>>
  /\ style = [selectedFont |-> "Inter", fontSize |-> 5,
              visualMaxWords |-> Unlimited, selectedAnimation |-> "none"]
  /\ textLayoutCache = EmptyCache
  /\ hasVideoEncoder = TRUE
  /\ nOps = 0
  /\ download = NoDownload
  /\ overlay = NoOverlay
  /\ app = NoApp
  /\ \E n \in 0..MaxRetries, d \in Delays :
       retryCall = [NoCall EXCEPT !.retries = n, !.delay = d,
                                  !.args = [retries |-> n, delay |-> d]]
  /\ render = NoRender

\* retry(fn, retries, delay, signal) is called
CallRetry ==
  /\ retryCall.pc = "idle"
  /\ retryCall' = retry(retryCall, retryCall.aborted)
  /\ UNCHANGED <<video, jobs, nJobs, isExporting, exportProgress, captions,
                 numericCaptions, style, textLayoutCache, hasVideoEncoder,
                 nOps, srt, download, overlay, render, app>>

\* the promise of fn resolves
FnResolved ==
  /\ retryCall.pc = "fn"
  /\ retryCall' = [retryCall EXCEPT !.pc = "resolved"]
  /\ UNCHANGED <<video, jobs, nJobs, isExporting, exportProgress, captions,
                 numericCaptions, style, textLayoutCache, hasVideoEncoder,
                 nOps, srt, download, overlay, render, app>>

\* the promise of fn rejects
FnRejected(msg) ==
  /\ retryCall.pc = "fn"
  /\ retryCall' = fnRejected(retryCall, msg, retryCall.aborted)
  /\ UNCHANGED <<video, jobs, nJobs, isExporting, exportProgress, captions,
                 numericCaptions, style, textLayoutCache, hasVideoEncoder,
                 nOps, srt, download, overlay, render, app>>

\* the timer of delayWithAbort fires
TimerFired ==
  /\ retryCall.pc = "wait"
  /\ retryCall' = timerFired(retryCall, retryCall.aborted)
  /\ UNCHANGED <<video, jobs, nJobs, isExporting, exportProgress, captions,
                 numericCaptions, style, textLayoutCache, hasVideoEncoder,
                 nOps, srt, download, overlay, render, app>>

\* controller.abort(): the signal's listeners run
SignalAborted ==
  /\ ~retryCall.aborted
  /\ retryCall.pc \in {"idle", "fn", "wait"}
  /\ retryCall' = [abortListener(retryCall) EXCEPT !.aborted = TRUE]
  /\ UNCHANGED <<video, jobs, nJobs, isExporting, exportProgress, captions,
                 numericCaptions, style, textLayoutCache, hasVideoEncoder,
                 nOps, srt, download, overlay, render, app>>

RetryNext ==
  \/ CallRetry
  \/ FnResolved
  \/ \E msg \in Messages : FnRejected(msg)
  \/ TimerFired
  \/ SignalAborted

RetrySpec == RetryInit /\ [][RetryNext]_vars

RECURSIVE Doubled(_, _)
\* delay * 2^k
Doubled(delay, k) == IF k = 0 THEN delay ELSE 2 * Doubled(delay, k - 1)

LastThrown(c) == c.thrown[Len(c.thrown)]

\* C30: retry invokes fn at most retries+1 times, again only after a
\* network-class error and a wait of delay * 2^(k-1) before the k-th retry;
\* it rejects with fn's last error when that error is not network-class or
\* no retries are left; once the signal is aborted fn is not invoked again,
\* and an abort before the call or during a wait makes retry reject with
\* "Operation cancelled by user".
C30_RetryContract ==
  [][/\ retryCall'.invoked <= retryCall.args.retries + 1
     /\ (retryCall'.invoked > retryCall.invoked /\ retryCall.invoked > 0)
          => /\ retryCall.pc = "wait"
             /\ isNetworkError(LastThrown(retryCall))
             /\ Len(retryCall.waits) = retryCall.invoked
     /\ \A k \in DOMAIN retryCall'.waits :
          retryCall'.waits[k] = Doubled(retryCall.args.delay, k - 1)
     /\ (retryCall.pc = "fn" /\ retryCall'.thrown # retryCall.thrown
           /\ \/ ~isNetworkError(LastThrown(retryCall'))
              \/ retryCall.invoked = retryCall.args.retries + 1)
          => /\ retryCall'.pc = "rejected"
             /\ retryCall'.error = LastThrown(retryCall')
     /\ retryCall.aborted => retryCall'.invoked = retryCall.invoked
     /\ (retryCall.aborted /\ retryCall.pc = "idle"
           /\ retryCall'.pc # "idle")
          => /\ retryCall'.pc = "rejected"
             /\ retryCall'.error = CancelMessage
     /\ (retryCall.pc = "wait" /\ retryCall'.aborted)
          => /\ retryCall'.pc = "rejected"
             /\ retryCall'.error = CancelMessage]_vars

\* every retry was used: fn failed retries+1 times with network errors and
\* retry rejected with the last of them after waits of d, 2d and 4d
C30_Witness ==
  /\ retryCall.pc = "rejected"
  /\ retryCall.args.retries = MaxRetries
  /\ retryCall.invoked = MaxRetries + 1
  /\ Len(retryCall.waits) = MaxRetries
  /\ retryCall.error = LastThrown(retryCall)
  /\ isNetworkError(retryCall.error)

(***************************************************************************)
(* The App: select a file, cancel, reset, and the settling of the pending  *)
(* calls of each request.                                                  *)
(***************************************************************************)
AppInit ==
  /\ video = [currentTime |-> 0, paused |-> TRUE, muted |-> FALSE,
              volume |-> 1, seeking |-> FALSE, videoWidth |-> 10,
              videoHeight |-> 20]
  /\ jobs = [j \in Jobs |-> NoJob]
  /\ nJobs = 0
  /\ isExporting = FALSE
  /\ exportProgress = 0
  /\ srt = <<>>
  /\ captions = <<>>
  /\ numericCaptions = <<>>
  /\ style = [selectedFont |-> "Inter", fontSize |-> 5,
              visualMaxWords |-> Unlimited, selectedAnimation |-> "none"]
  /\ textLayoutCache = EmptyCache
  /\ hasVideoEncoder = TRUE
  /\ nOps = 0
  /\ download = NoDownload
  /\ overlay = NoOverlay
  /\ app = NoApp
  /\ retryCall = NoCall
  /\ render = NoRender

\* the file input: handleFileSelect(file) up to `await fileToBase64(file)`
\* for a file under the inline limit (API_KEY present)
handleFileSelect ==
  /\ app.appState = "IDLE"
  /\ app.nRequests < MaxRequests
  /\ app' = [app EXCEPT
               !.nRequests = @ + 1,
               !.appState = "PROCESSING",
               !.currentVideo = app.nRequests + 1,
               !.statusMessage = "Reading video file...",
               !.abortControllerRef = app.nRequests + 1,
               !.reqs[app.nRequests + 1].pc = "read"]
  /\ UNCHANGED <<video, jobs, nJobs, isExporting, exportProgress, captions,
                 numericCaptions, style, textLayoutCache, hasVideoEncoder,
                 nOps, srt, download, overlay, render, retryCall>>

\* fileToBase64 resolves; generateVideoCaptions goes on to retry(...)
ReadResolved(r) ==
  /\ app.reqs[r].pc = "read"
  /\ app' = IF app.reqs[r].aborted
            THEN generateRejected(app, r, CancelMessage)
            ELSE [app EXCEPT
                    !.statusMessage = "Generating captions and insights...",
                    !.reqs[r].pc = "generate",
                    !.reqs[r].call =
                       retry([NoCall EXCEPT
                                !.retries = 3, !.delay = 2000,
                                !.args = [retries |-> 3, delay |-> 2000]],
                             FALSE)]
  /\ UNCHANGED <<video, jobs, nJobs, isExporting, exportProgress, captions,
                 numericCaptions, style, textLayoutCache, hasVideoEncoder,
                 nOps, srt, download, overlay, render, retryCall>>

\* fileToBase64 rejects (reader.onerror)
ReadRejected(r) ==
  /\ app.reqs[r].pc = "read"
  /\ app' = generateRejected(app, r, NoMessage)
  /\ UNCHANGED <<video, jobs, nJobs, isExporting, exportProgress, captions,
                 numericCaptions, style, textLayoutCache, hasVideoEncoder,
                 nOps, srt, download, overlay, render, retryCall>>

GenerateTexts == {"json", "empty", "not json"}

\* ai.models.generateContent resolves with a response
GenerateResolved(r, text) ==
  /\ app.reqs[r].pc = "generate"
  /\ LET a == [app EXCEPT !.reqs[r].call.pc = "resolved"]
     IN app' = IF app.reqs[r].aborted
               THEN generateRejected(a, r, CancelMessage)
               ELSE IF text = "empty"
               THEN generateRejected(a, r, NoResponseMessage)
               ELSE IF text = "not json"
               THEN generateRejected(a, r, SyntaxMessage)
               ELSE processResolved(a, r)
  /\ UNCHANGED <<video, jobs, nJobs, isExporting, exportProgress, captions,
                 numericCaptions, style, textLayoutCache, hasVideoEncoder,
                 nOps, srt, download, overlay, render, retryCall>>

ApiMessages == Messages \cup {ApiNotFoundMessage}

\* ai.models.generateContent rejects: the catch block of retry
GenerateRejected(r, msg) ==
  /\ app.reqs[r].pc = "generate"
  /\ LET c == fnRejected(app.reqs[r].call, msg, app.reqs[r].aborted)
         a == [app EXCEPT !.reqs[r].call = c]
     IN app' = IF c.pc = "wait" THEN [a EXCEPT !.reqs[r].pc = "backoff"]
               ELSE generateRejected(a, r, c.error)
  /\ UNCHANGED <<video, jobs, nJobs, isExporting, exportProgress, captions,
                 numericCaptions, style, textLayoutCache, hasVideoEncoder,
                 nOps, srt, download, overlay, render, retryCall>>

\* the timer of delayWithAbort fires: fn is invoked again
BackoffOver(r) ==
  /\ app.reqs[r].pc = "backoff"
  /\ app' = [app EXCEPT
               !.reqs[r].pc = "generate",
               !.reqs[r].call = timerFired(@, app.reqs[r].aborted)]
  /\ UNCHANGED <<video, jobs, nJobs, isExporting, exportProgress, captions,
                 numericCaptions, style, textLayoutCache, hasVideoEncoder,
                 nOps, srt, download, overlay, render, retryCall>>

\* handleCancel; a request waiting in delayWithAbort is rejected by the
\* abort listener and its processVideo returns right after the handler
handleCancel(a) ==
  IF a.abortControllerRef = 0 THEN a
  ELSE LET r == a.abortControllerRef
           c == abortListener(a.reqs[r].call)
           b == [a EXCEPT !.reqs[r].aborted = TRUE, !.reqs[r].call = c,
                          !.abortControllerRef = 0]
       IN IF a.reqs[r].pc = "backoff"
          THEN generateRejected(resetApp(b), r, c.error)
          ELSE resetApp(b)

\* click on Cancel Operation, shown while the app state is PROCESSING
CancelClicked ==
  /\ app.appState = "PROCESSING"
  /\ app' = handleCancel(app)
  /\ UNCHANGED <<video, jobs, nJobs, isExporting, exportProgress, captions,
                 numericCaptions, style, textLayoutCache, hasVideoEncoder,
                 nOps, srt, download, overlay, render, retryCall>>

\* click on the reset button of the results or of the error screen
ResetClicked ==
  /\ app.appState \in {"SUCCESS", "ERROR"}
  /\ app' = resetApp(app)
  /\ UNCHANGED <<video, jobs, nJobs, isExporting, exportProgress, captions,
                 numericCaptions, style, textLayoutCache, hasVideoEncoder,
                 nOps, srt, download, overlay, render, retryCall>>

AppNext ==
  \/ handleFileSelect
  \/ \E r \in Requests : ReadResolved(r)
  \/ \E r \in Requests : ReadRejected(r)
  \/ \E r \in Requests, text \in GenerateTexts : GenerateResolved(r, text)
  \/ \E r \in Requests, msg \in ApiMessages : GenerateRejected(r, msg)
  \/ \E r \in Requests : BackoffOver(r)
  \/ CancelClicked
  \/ ResetClicked

AppSpec == AppInit /\ [][AppNext]_vars

\* C28: handleCancel leaves the app state IDLE, and no later step of a
\* cancelled request changes the app state, the error message or the
\* analysis result.
C28_CancelIsSilent ==
  [][\A r \in Requests :
       /\ (~app.reqs[r].aborted /\ app'.reqs[r].aborted)
            => app'.appState = "IDLE"
       /\ (app.reqs[r].aborted /\ app'.reqs[r] # app.reqs[r])
            => /\ app'.appState = app.appState
               /\ app'.errorMsg = app.errorMsg
               /\ app'.analysisResult = app.analysisResult]_vars

\* C29: while the app state is PROCESSING, abortControllerRef holds the
\* controller of the request in flight, the last one started.
C29_ControllerOfRequestInFlight ==
  app.appState = "PROCESSING" => app.abortControllerRef = app.nRequests

====
